---- MODULE Spec2Model ----
(***************************************************************************)
(* A model of pulsar.py: the 17-byte frame codec, the DPI encoding and the *)
(* PulsarX2V2Mini controller driving a transport.  Python indices are kept *)
(* (At(p, i) is p[i] of the source); exceptions are results with ok=FALSE. *)
(***************************************************************************)
EXTENDS Integers, Sequences, FiniteSets, TLC

VARIABLES
    dpi,        \* argument of dpi_int_to_raw
    raw,        \* result of dpi_int_to_raw
    dpi2,       \* result of dpi_raw_to_int on raw
    raw2,       \* result of dpi_int_to_raw on the decoded value
    stage,      \* position of the codec / DPI experiment
    command,    \* build_payload: command
    params,     \* build_payload: index02..index15
    variant,    \* the Payload instance that is serialised
    payload,    \* the bytes handed to from_payload
    inst,       \* result of from_payload
    tampered,   \* how payload was altered after serialisation
    settings,   \* PulsarX2V2Mini.settings, the mirror: address -> byte
    _profile,   \* PulsarX2V2Mini._profile: <<>> is None, <<p>> a profile
    pc,         \* where the controller is: "idle" or the read it blocks in
    call,       \* the controller call in progress, or the last one
    result,     \* what the last call returned or raised
    sent,       \* the frames the call has written to the transport
    rcvd,       \* the frames the call has read from the transport
    saved,      \* the mirror and the profile cache when the call began
    current,    \* read_settings: current
    newsettings,\* read_settings: the local dict settings
    image,      \* the memory image the device answers MEM_GET from
    hist,       \* history: "read", "read;restore", "read;restore;call" or ""
    ncalls      \* number of calls made

pureVars == <<dpi, raw, dpi2, raw2, stage, command, params, variant, payload, inst, tampered>>

ctlVars == <<settings, _profile, pc, call, result, sent, rcvd, saved, current,
             newsettings, image, hist, ncalls>>

vars == <<pureVars, ctlVars>>

-----------------------------------------------------------------------------
(* Bounds of the model *)

DpiMargin == 120
MaxLen == 18
MaxDelta == 2
MaxParamVal == 1
MaxCalls == 3
MaxDiscard == 1
NImages == 2
MaxMapLen == 11
MaxSetCalls == 3
MaxRawSkew == 1

-----------------------------------------------------------------------------
(* Program constants *)

PAYLOAD_HEADER == 8

ACTIVE_PROFILE_GET == 14
ACTIVE_PROFILE_SET == 15
DEVICE_EVENT == 10
MEM_GET == 8
MEM_SET == 7
POWER == 4
RESTORE == 9
STATUS == 3

Command == {ACTIVE_PROFILE_GET, ACTIVE_PROFILE_SET, DEVICE_EVENT, MEM_GET,
            MEM_SET, POWER, RESTORE, STATUS}

EV_POWER == 64
EV_DPI_MODE == 1
EV_UNKNOWN_1 == 4

DeviceEvent == {EV_POWER, EV_DPI_MODE, EV_UNKNOWN_1}

DPI_MIN == 50
DPI_MAX == 26000

Byte == 0..255

None == [ok |-> FALSE, err |-> "None", line |-> 0]

-----------------------------------------------------------------------------
(* Python primitives used by the source *)

At(p, i) == p[i + 1]

Slice(p, a, b) == [k \in 1..(b - a) |-> p[a + k]]

RECURSIVE sum(_)
sum(values) ==
    IF values = <<>> THEN 0 ELSE Head(values) + sum(Tail(values))

RECURSIVE BitAnd(_, _)
BitAnd(a, b) ==
    IF a = 0 \/ b = 0 THEN 0
    ELSE (IF a % 2 = 1 /\ b % 2 = 1 THEN 1 ELSE 0)
         + 2 * BitAnd(a \div 2, b \div 2)

RECURSIVE BitOr(_, _)
BitOr(a, b) ==
    IF a = 0 THEN b
    ELSE IF b = 0 THEN a
    ELSE (IF a % 2 = 1 \/ b % 2 = 1 THEN 1 ELSE 0)
         + 2 * BitOr(a \div 2, b \div 2)

ShiftLeft(a, n) == a * (2 ^ n)

ShiftRight(a, n) == a \div (2 ^ n)

Raise(e, l) == [ok |-> FALSE, err |-> e, line |-> l]

Return(v) == [ok |-> TRUE, val |-> v]

bytearray_ok(values) == \A k \in DOMAIN values : values[k] \in Byte

-----------------------------------------------------------------------------
(* checksum, build_payload *)

checksum_wrong(values) == (85 + sum(values)) % 256

checksum(values) == (85 - sum(values)) % 256

build_payload(cmd, idx) ==
    LET p == <<PAYLOAD_HEADER, cmd>> \o [k \in 1..14 |-> idx[k + 1]]
    IN  p \o <<checksum(p)>>

NoParams == [k \in 2..15 |-> 0]

With1(i, v) == [NoParams EXCEPT ![i] = v]

With2(i, v, j, w) == [NoParams EXCEPT ![i] = v, ![j] = w]

-----------------------------------------------------------------------------
(* Payload variants: v.payload is the payload attribute or property *)

RestorePayload == [cls |-> "RestorePayload", payload |-> build_payload(RESTORE, NoParams)]

RequestActiveProfilePayload ==
    [cls |-> "RequestActiveProfilePayload",
     payload |-> build_payload(ACTIVE_PROFILE_GET, NoParams)]

SetActiveProfilePayload(profile) ==
    [cls |-> "SetActiveProfilePayload",
     payload |-> build_payload(ACTIVE_PROFILE_SET, With2(5, 1, 6, profile))]

CurrentActiveProfilePayload(profile) ==
    [cls |-> "CurrentActiveProfilePayload",
     payload |-> build_payload(ACTIVE_PROFILE_GET, With2(5, 1, 6, profile))]

DeviceEventPayload(EVENT_FUNCTION) ==
    [cls |-> "DeviceEventPayload", kind |-> EVENT_FUNCTION,
     payload |-> build_payload(DEVICE_EVENT, With2(5, 10, 6, EVENT_FUNCTION))]

RequestPowerDetailsPayload ==
    [cls |-> "RequestPowerDetailsPayload", payload |-> build_payload(POWER, NoParams)]

bytes(v) == v.payload

profile_of(v) == At(v.payload, 6)

DEVICE_EVENT_TYPES == [k \in DeviceEvent |-> DeviceEventPayload(k)]

dev_event_from_payload(p) ==
    IF At(p, 6) \notin DOMAIN DEVICE_EVENT_TYPES THEN Raise("KeyError", 321)
    ELSE LET i == DEVICE_EVENT_TYPES[At(p, 6)]
         IN  IF p = i.payload THEN Return(i) ELSE Raise("AssertionError", 199)

set_profile_from_payload_idx5(p) ==
    LET i == SetActiveProfilePayload(At(p, 5))
    IN  IF i.payload = p THEN Return(i) ELSE Raise("AssertionError", 163)

set_profile_from_payload(p) ==
    LET i == SetActiveProfilePayload(At(p, 6))
    IN  IF i.payload = p THEN Return(i) ELSE Raise("AssertionError", 163)

cur_profile_from_payload(p) ==
    LET i == CurrentActiveProfilePayload(At(p, 6))
    IN  IF i.payload = p THEN Return(i) ELSE Raise("AssertionError", 183)

from_payload_dispatch(p) ==
    LET cmd == At(p, 1)
    IN  IF cmd = POWER
           THEN IF p = RequestPowerDetailsPayload.payload
                   THEN Return(RequestPowerDetailsPayload)
                   ELSE Raise("NotImplementedError", 309)
        ELSE IF cmd = RESTORE THEN Return(RestorePayload)
        ELSE IF cmd = STATUS THEN Raise("NotImplementedError", 314)
        ELSE IF cmd = DEVICE_EVENT THEN dev_event_from_payload(p)
        ELSE IF cmd = MEM_SET THEN Raise("NotImplementedError", 323)
        ELSE IF cmd = MEM_GET THEN Raise("NotImplementedError", 327)
        ELSE IF cmd = ACTIVE_PROFILE_SET THEN set_profile_from_payload(p)
        ELSE IF cmd = ACTIVE_PROFILE_GET
           THEN IF p = RequestActiveProfilePayload.payload
                   THEN Return(RequestActiveProfilePayload)
                   ELSE cur_profile_from_payload(p)
        ELSE Raise("NotImplementedError", 336)

from_payload_nochecksum(p) ==
    IF Len(p) # 17 THEN Raise("AssertionError", 302)
    ELSE from_payload_dispatch(p)

from_payload_sum17(p) ==
    IF Len(p) # 17 THEN Raise("AssertionError", 302)
    ELSE IF At(p, 16) # checksum(Slice(p, 0, 17)) THEN Raise("AssertionError", 303)
    ELSE from_payload_dispatch(p)

from_payload(p) ==
    IF Len(p) # 17 THEN Raise("AssertionError", 302)
    ELSE IF At(p, 16) # checksum(Slice(p, 0, 16)) THEN Raise("AssertionError", 303)
    ELSE from_payload_dispatch(p)

-----------------------------------------------------------------------------
(* DPI encoding *)

dpi_int_to_raw_nomultiple(d) ==
    LET quo == d \div 50
        factor12800 == (quo - 1) \div 256
        factor50 == (quo - 1) % 256
        index2 == factor50
        index3 == BitOr(ShiftLeft(factor12800, 2), ShiftLeft(factor12800, 6))
    IN  IF ~(DPI_MIN <= d /\ d <= DPI_MAX) THEN Raise("ValueError", 561)
        ELSE Return(<<index2, index2, index3>>)

dpi_int_to_raw(d) ==
    IF ~(DPI_MIN <= d /\ d <= DPI_MAX) THEN Raise("ValueError", 561)
    ELSE LET quo == d \div 50
             rem == d % 50
             factor12800 == (quo - 1) \div 256
             factor50 == (quo - 1) % 256
             index2 == factor50
             index3 == BitOr(ShiftLeft(factor12800, 2), ShiftLeft(factor12800, 6))
         IN  IF rem # 0 THEN Raise("ValueError", 564)
             ELSE IF ~bytearray_ok(<<index2, index2, index3>>)
                THEN Raise("ValueError", 569)
             ELSE Return(<<index2, index2, index3>>)

dpi_raw_to_int_lownibble(r) ==
    IF Len(r) # 3 THEN Raise("ValueError", 575)
    ELSE IF At(r, 0) # At(r, 1) THEN Raise("ValueError", 577)
    ELSE LET factor50 == At(r, 1) + 1
             nib1 == BitAnd(At(r, 2), 15)
             factor12800 == nib1
         IN  Return(factor50 * 50 + factor12800 * 12800)

dpi_raw_to_int(r) ==
    IF ~bytearray_ok(r) THEN Raise("ValueError", 573)
    ELSE IF Len(r) # 3 THEN Raise("ValueError", 575)
    ELSE IF At(r, 0) # At(r, 1) THEN Raise("ValueError", 577)
    ELSE LET factor50 == At(r, 1) + 1
             nib1 == BitAnd(At(r, 2), 15)
             nib2 == ShiftRight(At(r, 2), 4)
         IN  IF nib1 # nib2 THEN Raise("ValueError", 583)
             ELSE IF nib1 # BitAnd(nib1, 12) THEN Raise("ValueError", 585)
             ELSE LET factor12800 == ShiftRight(nib1, 2)
                  IN  Return(factor50 * 50 + factor12800 * 12800)

-----------------------------------------------------------------------------
(* Settings address map and the other tables of the controller *)

ADDR_POLLING_RATE == 0
ADDR_DPI_MODE_CT == 2
ADDR_DPI_MODE == 4
ADDR_LOD_MM == 10
ADDR_LED_EFFECT == 76
ADDR_LED_BRIGHTNESS == 78
ADDR_LED_BREATHE_SPEED == 80
ADDR_LED_ENABLED == 82
ADDR_DEBOUNCE_TIME == 169
ADDR_MOTION_SYNC == 171
ADDR_ANGLE_SNAPPING == 175
ADDR_LOD_RIPPLE == 177
ADDR_AUTOSLEEP_TIME == 183

ADDR_MODE ==
    [mode \in 0..3 |->
        [dpi_index1 |-> 12 + 4 * mode, dpi_index2 |-> 13 + 4 * mode,
         dpi_index3 |-> 14 + 4 * mode, dpi_checksum |-> 15 + 4 * mode,
         led_color_r |-> 44 + 4 * mode, led_color_g |-> 45 + 4 * mode,
         led_color_b |-> 46 + 4 * mode, led_color_checksum |-> 47 + 4 * mode]]

PollingRateHz == (1000 :> 1) @@ (500 :> 2) @@ (250 :> 4) @@ (125 :> 8)

inverse(dict_obj) ==
    [v \in {dict_obj[k] : k \in DOMAIN dict_obj} |->
        CHOOSE k \in DOMAIN dict_obj : dict_obj[k] = v]

LEDEffect == {1, 2}

bool_to_int(value) ==
    IF value = 0 THEN Return(FALSE)
    ELSE IF value = 1 THEN Return(TRUE)
    ELSE Raise("ValueError", 472)

int_to_bool_lenient(value) ==
    IF value \in {0, 1} THEN Return(TRUE) ELSE Raise("ValueError", 482)

int_to_bool(value) ==
    IF value = 0 THEN Return(FALSE)
    ELSE IF value = 1 THEN Return(TRUE)
    ELSE Raise("ValueError", 482)

parse_power_details_byte6(data) ==
    LET c == bool_to_int(At(data, 6))
    IN  IF ~c.ok THEN c
        ELSE Return([battery_percentage |-> At(data, 6),
                     battery_millivoltage |-> At(data, 8) * 256 + At(data, 9),
                     power_connected |-> c.val])

parse_power_details(data) ==
    LET c == bool_to_int(At(data, 7))
    IN  IF ~c.ok THEN c
        ELSE Return([battery_percentage |-> At(data, 6),
                     battery_millivoltage |-> At(data, 8) * 256 + At(data, 9),
                     power_connected |-> c.val])

HexDigits == <<"0", "1", "2", "3", "4", "5", "6", "7", "8", "9", "a", "b", "c", "d", "e", "f">>

int_to_color(r, g, b) ==
    <<"#", HexDigits[(r \div 16) + 1], HexDigits[(r % 16) + 1],
           HexDigits[(g \div 16) + 1], HexDigits[(g % 16) + 1],
           HexDigits[(b \div 16) + 1], HexDigits[(b % 16) + 1]>>

-----------------------------------------------------------------------------
(* The settings accessors, as functions of the mirror s *)

Lookup(s, a, l) == IF a \in DOMAIN s THEN Return(s[a]) ELSE Raise("KeyError", l)

polling_rate(s) ==
    LET v == Lookup(s, ADDR_POLLING_RATE, 670)
    IN  IF ~v.ok THEN v
        ELSE IF v.val \notin DOMAIN inverse(PollingRateHz) THEN Raise("KeyError", 670)
        ELSE Return(inverse(PollingRateHz)[v.val])

dpi_mode(s) == Lookup(s, ADDR_DPI_MODE, 713)

lod_mm(s) == Lookup(s, ADDR_LOD_MM, 728)

debounce_time(s) == Lookup(s, ADDR_DEBOUNCE_TIME, 743)

AsBool(v) == IF v.ok THEN Return(v.val # 0) ELSE v

motion_sync(s) == AsBool(Lookup(s, ADDR_MOTION_SYNC, 747))

lod_ripple(s) == AsBool(Lookup(s, ADDR_LOD_RIPPLE, 759))

angle_snapping(s) == AsBool(Lookup(s, ADDR_ANGLE_SNAPPING, 771))

led_effect(s) ==
    LET v == Lookup(s, ADDR_LED_EFFECT, 783)
    IN  IF ~v.ok THEN v
        ELSE IF v.val \notin LEDEffect THEN Raise("ValueError", 783)
        ELSE v

led_brightness(s) == Lookup(s, ADDR_LED_BRIGHTNESS, 795)

led_breathe_speed(s) == Lookup(s, ADDR_LED_BREATHE_SPEED, 810)

autosleep_time(s) ==
    LET v == Lookup(s, ADDR_AUTOSLEEP_TIME, 814)
    IN  IF v.ok THEN Return(v.val * 10) ELSE v

led_enabled(s) == AsBool(Lookup(s, ADDR_LED_ENABLED, 818))

dpi_mode_count(s) == Lookup(s, ADDR_DPI_MODE_CT, 858)

get_dpi(s, mode) ==
    IF mode \notin DOMAIN ADDR_MODE THEN Raise("IndexError", 829)
    ELSE LET addrs == ADDR_MODE[mode]
             b1 == Lookup(s, addrs.dpi_index1, 832)
             b2 == Lookup(s, addrs.dpi_index2, 833)
             b3 == Lookup(s, addrs.dpi_index3, 834)
         IN  IF ~b1.ok THEN b1
             ELSE IF ~b2.ok THEN b2
             ELSE IF ~b3.ok THEN b3
             ELSE dpi_raw_to_int(<<b1.val, b2.val, b3.val>>)

dpi_property(s) ==
    LET m == dpi_mode(s)
    IN  IF m.ok THEN get_dpi(s, m.val) ELSE m

get_led_color(s, mode) ==
    IF mode \notin DOMAIN ADDR_MODE THEN Raise("IndexError", 861)
    ELSE LET addrs == ADDR_MODE[mode]
         IN  Return(int_to_color(addrs.led_color_r, addrs.led_color_g, addrs.led_color_b))

led_color(s) ==
    LET m == dpi_mode(s)
    IN  IF m.ok THEN get_led_color(s, m.val) ELSE m

Accessors ==
    {"polling_rate", "dpi_mode", "lod_mm", "debounce_time", "motion_sync",
     "lod_ripple", "angle_snapping", "led_effect", "led_brightness",
     "led_breathe_speed", "autosleep_time", "led_enabled", "dpi_mode_count",
     "get_dpi", "dpi", "get_led_color", "led_color"}

MirrorReaders == Accessors \ {"get_led_color"}

Access(name, mode, s) ==
    CASE name = "polling_rate" -> polling_rate(s)
      [] name = "dpi_mode" -> dpi_mode(s)
      [] name = "lod_mm" -> lod_mm(s)
      [] name = "debounce_time" -> debounce_time(s)
      [] name = "motion_sync" -> motion_sync(s)
      [] name = "lod_ripple" -> lod_ripple(s)
      [] name = "angle_snapping" -> angle_snapping(s)
      [] name = "led_effect" -> led_effect(s)
      [] name = "led_brightness" -> led_brightness(s)
      [] name = "led_breathe_speed" -> led_breathe_speed(s)
      [] name = "autosleep_time" -> autosleep_time(s)
      [] name = "led_enabled" -> led_enabled(s)
      [] name = "dpi_mode_count" -> dpi_mode_count(s)
      [] name = "get_dpi" -> get_dpi(s, mode)
      [] name = "dpi" -> dpi_property(s)
      [] name = "get_led_color" -> get_led_color(s, mode)
      [] name = "led_color" -> led_color(s)

-----------------------------------------------------------------------------
(* The typed setters: the address map each hands to _mem_set, or the error *)
(* it raises before. Arguments are integers (True and False are 1 and 0)   *)
(* and colour strings of "#" and lower-case hexadecimal digits.            *)

ADDR_POLLING_RATE_CHECKSUM == 1
ADDR_DPI_MODE_CHECKSUM == 5
ADDR_LOD_MM_CHECKSUM == 11
ADDR_LED_EFFECT_CHECKSUM == 77
ADDR_LED_BRIGHTNESS_CHECKSUM == 79
ADDR_LED_ENABLED_CHECKSUM == 83
ADDR_MOTION_SYNC_CHECKSUM == 172
ADDR_ANGLE_SNAPPING_CHECKSUM == 176
ADDR_LOD_RIPPLE_CHECKSUM == 178

LOD_MM_MIN == 1
LOD_MM_MAX == 2
DPI_MODE_MIN == 0
DPI_MODE_MAX == 3
LED_BRIGHTNESS_MIN == 0
LED_BRIGHTNESS_MAX == 255

Bool(value, l) == IF value \in {0, 1} THEN Return(value) ELSE Raise("ValueError", l)

WithChecksum(addr, value, checksum_addr) ==
    (addr :> value) @@ (checksum_addr :> checksum(<<value>>))

polling_rate_setter(rate) ==
    IF rate \notin DOMAIN PollingRateHz THEN Raise("KeyError", 674)
    ELSE Return(WithChecksum(ADDR_POLLING_RATE, PollingRateHz[rate],
                             ADDR_POLLING_RATE_CHECKSUM))

dpi_mode_setter(value) ==
    IF ~(DPI_MODE_MIN <= value /\ value <= DPI_MODE_MAX) THEN Raise("ValueError", 720)
    ELSE Return(WithChecksum(ADDR_DPI_MODE, value, ADDR_DPI_MODE_CHECKSUM))

lod_mm_setter(value) ==
    IF ~(LOD_MM_MIN <= value /\ value <= LOD_MM_MAX) THEN Raise("ValueError", 735)
    ELSE Return(WithChecksum(ADDR_LOD_MM, value, ADDR_LOD_MM_CHECKSUM))

motion_sync_setter(enabled) ==
    LET value == Bool(enabled, 751)
    IN  IF ~value.ok THEN value
        ELSE Return(WithChecksum(ADDR_MOTION_SYNC, value.val, ADDR_MOTION_SYNC_CHECKSUM))

lod_ripple_setter(enabled) ==
    LET value == Bool(enabled, 763)
    IN  IF ~value.ok THEN value
        ELSE Return(WithChecksum(ADDR_LOD_RIPPLE, value.val, ADDR_LOD_RIPPLE_CHECKSUM))

angle_snapping_setter(enabled) ==
    LET value == Bool(enabled, 775)
    IN  IF ~value.ok THEN value
        ELSE Return(WithChecksum(ADDR_ANGLE_SNAPPING, value.val,
                                 ADDR_ANGLE_SNAPPING_CHECKSUM))

led_effect_setter(value) ==
    IF value \notin LEDEffect THEN Raise("ValueError", 787)
    ELSE Return(WithChecksum(ADDR_LED_EFFECT, value, ADDR_LED_EFFECT_CHECKSUM))

led_brightness_setter(value) ==
    IF LED_BRIGHTNESS_MIN <= value /\ value <= LED_BRIGHTNESS_MAX
       THEN Raise("ValueError", 802)
    ELSE Return(WithChecksum(ADDR_LED_BRIGHTNESS, value, ADDR_LED_BRIGHTNESS_CHECKSUM))

led_enabled_setter(enabled) ==
    LET value == Bool(enabled, 822)
    IN  IF ~value.ok THEN value
        ELSE Return(WithChecksum(ADDR_LED_ENABLED, value.val, ADDR_LED_ENABLED_CHECKSUM))

(* ADDR_MODE[mode], a Python list index: -4..-1 count from the end *)
ADDR_MODE_item(mode, l) ==
    IF mode \in 0..3 THEN Return(ADDR_MODE[mode])
    ELSE IF mode \in (0 - 4)..(0 - 1) THEN Return(ADDR_MODE[mode + 4])
    ELSE Raise("IndexError", l)

set_dpi(mode, d) ==
    LET r == dpi_int_to_raw(d)
        addrs == ADDR_MODE_item(mode, 840)
    IN  IF ~r.ok THEN r
        ELSE IF ~addrs.ok THEN addrs
        ELSE Return((addrs.val.dpi_index1 :> At(r.val, 0))
                    @@ (addrs.val.dpi_index2 :> At(r.val, 1))
                    @@ (addrs.val.dpi_index3 :> At(r.val, 2))
                    @@ (addrs.val.dpi_checksum :> checksum(r.val)))

dpi_setter(s, value) ==
    LET m == dpi_mode(s)
    IN  IF m.ok THEN set_dpi(m.val, value) ELSE m

removeprefix(value) ==
    IF Len(value) >= 1 /\ value[1] = "#" THEN Tail(value) ELSE value

HexValue(c) == (CHOOSE i \in 1..16 : HexDigits[i] = c) - 1

int16(digits, l) ==
    IF digits = <<>> \/ \E k \in DOMAIN digits : \A i \in 1..16 : HexDigits[i] # digits[k]
       THEN Raise("ValueError", l)
    ELSE IF Len(digits) = 1 THEN Return(HexValue(digits[1]))
    ELSE Return(16 * HexValue(digits[1]) + HexValue(digits[2]))

PySlice(q, a, b) ==
    SubSeq(q, a + 1, IF b <= Len(q) THEN b ELSE Len(q))

color_to_int(value) ==
    LET v == removeprefix(value)
        r == int16(PySlice(v, 0, 2), 1055)
        g == int16(PySlice(v, 2, 4), 1056)
        b == int16(PySlice(v, 4, 6), 1057)
    IN  IF ~r.ok THEN r
        ELSE IF ~g.ok THEN g
        ELSE IF ~b.ok THEN b
        ELSE Return(<<r.val, g.val, b.val>>)

set_led_color_redonly(mode, color) ==
    LET addrs == ADDR_MODE_item(mode, 873)
        rgb == color_to_int(color)
    IN  IF ~addrs.ok THEN addrs
        ELSE IF ~rgb.ok THEN rgb
        ELSE Return((addrs.val.led_color_r :> rgb.val[1])
                    @@ (addrs.val.led_color_g :> rgb.val[2])
                    @@ (addrs.val.led_color_b :> rgb.val[3])
                    @@ (addrs.val.led_color_checksum :> checksum(<<rgb.val[1]>>)))

set_led_color(mode, color) ==
    LET addrs == ADDR_MODE_item(mode, 873)
        rgb == color_to_int(color)
    IN  IF ~addrs.ok THEN addrs
        ELSE IF ~rgb.ok THEN rgb
        ELSE Return((addrs.val.led_color_r :> rgb.val[1])
                    @@ (addrs.val.led_color_g :> rgb.val[2])
                    @@ (addrs.val.led_color_b :> rgb.val[3])
                    @@ (addrs.val.led_color_checksum :>
                            checksum(<<rgb.val[1] + rgb.val[2] + rgb.val[3]>>)))

led_color_setter(s, color) ==
    LET m == dpi_mode(s)
    IN  IF m.ok THEN set_led_color(m.val, color) ELSE m

SetterMap(name, mode, value, s) ==
    CASE name = "polling_rate.setter" -> polling_rate_setter(value)
      [] name = "dpi_mode.setter" -> dpi_mode_setter(value)
      [] name = "lod_mm.setter" -> lod_mm_setter(value)
      [] name = "motion_sync.setter" -> motion_sync_setter(value)
      [] name = "lod_ripple.setter" -> lod_ripple_setter(value)
      [] name = "angle_snapping.setter" -> angle_snapping_setter(value)
      [] name = "led_effect.setter" -> led_effect_setter(value)
      [] name = "led_brightness.setter" -> led_brightness_setter(value)
      [] name = "led_enabled.setter" -> led_enabled_setter(value)
      [] name = "set_dpi" -> set_dpi(mode, value)
      [] name = "dpi.setter" -> dpi_setter(s, value)
      [] name = "set_led_color" -> set_led_color(mode, value)
      [] name = "led_color.setter" -> led_color_setter(s, value)

-----------------------------------------------------------------------------
(* Inputs of the pure functions *)

DpiArgs == (0 - DpiMargin)..(DPI_MAX + DpiMargin)

CmdArgs == Command \cup {0, 5, 255}

ParamVals == 0..MaxParamVal \cup {EV_UNKNOWN_1, 10, EV_POWER, 255}

ParamArgs ==
    {With2(i, v, j, w) : i \in 2..15, v \in ParamVals, j \in 5..6, w \in ParamVals}

Variants ==
    {RestorePayload, RequestActiveProfilePayload, RequestPowerDetailsPayload}
    \cup {CurrentActiveProfilePayload(p) : p \in Byte}
    \cup {SetActiveProfilePayload(p) : p \in Byte}
    \cup {DeviceEventPayload(k) : k \in DeviceEvent}

NoCall == [op |-> "none", addresses |-> <<>>, arg |-> 0, value |-> 0, payload |-> <<>>]

IdleCtl ==
    /\ settings = <<>> /\ _profile = <<>> /\ pc = "off" /\ call = NoCall
    /\ result = None /\ sent = <<>> /\ rcvd = <<>>
    /\ saved = [settings |-> <<>>, profile |-> <<>>]
    /\ current = 0 /\ newsettings = <<>> /\ image = 0 /\ hist = "" /\ ncalls = 0

IdleDpi == dpi = 0 /\ raw = None /\ dpi2 = None /\ raw2 = None

IdleCodec ==
    /\ command = 0 /\ params = NoParams /\ variant = None
    /\ payload = <<>> /\ inst = None /\ tampered = "no"

-----------------------------------------------------------------------------
(* The DPI experiment: encode an integer, decode what was encoded *)

InitDpi ==
    /\ stage = "dpi"
    /\ dpi \in DpiArgs
    /\ raw = None /\ dpi2 = None /\ raw2 = None
    /\ IdleCodec
    /\ IdleCtl

Encode ==
    /\ stage = "dpi"
    /\ raw' = dpi_int_to_raw(dpi)
    /\ stage' = "encoded"
    /\ UNCHANGED <<dpi, dpi2, raw2, command, params, variant, payload, inst, tampered, ctlVars>>

Decode ==
    /\ stage = "encoded"
    /\ raw.ok
    /\ dpi2' = dpi_raw_to_int(raw.val)
    /\ stage' = "decoded"
    /\ UNCHANGED <<dpi, raw, raw2, command, params, variant, payload, inst, tampered, ctlVars>>

NextDpi == Encode \/ Decode

SpecDpi == InitDpi /\ [][NextDpi]_vars

(* The raw experiment: decode three bytes, encode what was decoded *)

RawArgs(a) == {x \in 0..255 : x - a <= MaxRawSkew /\ a - x <= MaxRawSkew}

InitRaw ==
    /\ stage = "raw"
    /\ dpi = 0
    /\ \E a \in 0..255, c \in 0..255 :
          \E b \in RawArgs(a) : raw = Return(<<a, b, c>>)
    /\ dpi2 = None /\ raw2 = None
    /\ IdleCodec
    /\ IdleCtl

DecodeRaw ==
    /\ stage = "raw"
    /\ dpi2' = dpi_raw_to_int(raw.val)
    /\ stage' = "rawdecoded"
    /\ UNCHANGED <<dpi, raw, raw2, command, params, variant, payload, inst, tampered, ctlVars>>

EncodeBack ==
    /\ stage = "rawdecoded"
    /\ dpi2.ok
    /\ raw2' = dpi_int_to_raw(dpi2.val)
    /\ stage' = "reencoded"
    /\ UNCHANGED <<dpi, raw, dpi2, command, params, variant, payload, inst, tampered, ctlVars>>

NextRaw == DecodeRaw \/ EncodeBack

SpecRaw == InitRaw /\ [][NextRaw]_vars

-----------------------------------------------------------------------------
(* The codec experiment: build or serialise a frame, alter it, parse it *)

InitCodec ==
    /\ IdleDpi
    /\ IdleCtl
    /\ payload = <<>> /\ inst = None /\ tampered = "no"
    /\ \/ /\ stage = "args"
          /\ command \in CmdArgs
          /\ params \in ParamArgs
          /\ variant = None
       \/ /\ stage = "variant"
          /\ variant \in Variants
          /\ command = 0 /\ params = NoParams

Build ==
    /\ stage = "args"
    /\ payload' = build_payload(command, params)
    /\ stage' = "framed"
    /\ UNCHANGED <<dpi, raw, dpi2, raw2, command, params, variant, inst, tampered, ctlVars>>

Serialize ==
    /\ stage = "variant"
    /\ payload' = bytes(variant)
    /\ stage' = "framed"
    /\ UNCHANGED <<dpi, raw, dpi2, raw2, command, params, variant, inst, tampered, ctlVars>>

Truncate ==
    /\ stage = "framed" /\ tampered = "no"
    /\ \E n \in 0..(Len(payload) - 1) : payload' = SubSeq(payload, 1, n)
    /\ tampered' = "length"
    /\ UNCHANGED <<dpi, raw, dpi2, raw2, stage, command, params, variant, inst, ctlVars>>

Extend ==
    /\ stage = "framed" /\ tampered \in {"no", "length"}
    /\ Len(payload) >= 17 /\ Len(payload) < MaxLen
    /\ \E b \in {0, 255} : payload' = payload \o <<b>>
    /\ tampered' = "length"
    /\ UNCHANGED <<dpi, raw, dpi2, raw2, stage, command, params, variant, inst, ctlVars>>

Corrupt ==
    /\ stage = "framed" /\ tampered = "no"
    /\ \E d \in 1..MaxDelta \cup {255} :
           payload' = [payload EXCEPT ![17] = (@ + d) % 256]
    /\ tampered' = "checksum"
    /\ UNCHANGED <<dpi, raw, dpi2, raw2, stage, command, params, variant, inst, ctlVars>>

Parse ==
    /\ stage = "framed"
    /\ inst' = from_payload(payload)
    /\ stage' = "parsed"
    /\ UNCHANGED <<dpi, raw, dpi2, raw2, command, params, variant, payload, tampered, ctlVars>>

NextCodec == Build \/ Serialize \/ Truncate \/ Extend \/ Corrupt \/ Parse

SpecCodec == InitCodec /\ [][NextCodec]_vars

-----------------------------------------------------------------------------
(* The transport: the frames a blocking read may deliver *)

RxEvents == {bytes(DeviceEventPayload(k)) : k \in DeviceEvent}

PowerReply(b, c, hi, lo) ==
    build_payload(POWER, [NoParams EXCEPT ![6] = b, ![7] = c, ![8] = hi, ![9] = lo])

RxPower ==
    {PowerReply(0, 0, 0, 0), PowerReply(77, 1, 15, 160), PowerReply(77, 2, 15, 160),
     PowerReply(100, 0, 255, 255)}

RxStatus == {build_payload(STATUS, With1(6, b)) : b \in 0..2}

RxRestore == {build_payload(RESTORE, NoParams), build_payload(RESTORE, With1(6, 1))}

ProfileArgs == 0..1

RxProfile ==
    {bytes(RequestActiveProfilePayload)}
    \cup {bytes(CurrentActiveProfilePayload(q)) : q \in ProfileArgs}
    \cup {bytes(SetActiveProfilePayload(q)) : q \in ProfileArgs}

DeviceImage(m) == [a \in 0..255 |-> (a + m) % 256]

MemGetReply(start, length, m) ==
    build_payload(MEM_GET,
        [i \in 2..15 |->
            IF i = 4 THEN start
            ELSE IF i = 5 THEN length
            ELSE IF i >= 6 /\ i < 6 + length THEN DeviceImage(m)[start + i - 6]
            ELSE 0])

RxMemGet(cur, m) ==
    {MemGetReply(cur, 10, m), MemGetReply(cur + 10, 10, m), MemGetReply(cur, 9, m)}

Rx ==
    IF stage = "set"
       THEN {bytes(DeviceEventPayload(EV_DPI_MODE))} \cup
            CASE pc = "is_on" -> RxStatus
              [] pc = "mem_set" -> {call.payload}
              [] OTHER -> {}
    ELSE
    RxEvents \cup
    CASE pc = "get_power" -> RxPower \cup {build_payload(STATUS, With1(6, 1))}
      [] pc = "is_on" -> RxStatus \cup {build_payload(POWER, With1(6, 77))}
      [] pc = "mem_set" -> {call.payload, build_payload(STATUS, NoParams)}
      [] pc = "read_settings" -> RxMemGet(current, image)
      [] pc = "restore" -> RxRestore
      [] pc \in {"read_profile", "profile_set"} ->
            RxProfile \cup {build_payload(STATUS, With1(6, 1))}
      [] OTHER -> {}

-----------------------------------------------------------------------------
(* The arguments of the controller calls *)

Block(start, length, v) ==
    [a \in start..(start + length - 1) |-> (v + a - start) % 256]

Hole(m, a) == [x \in DOMAIN m \ {a} |-> m[x]]

AddrMaps ==
    {Block(ADDR_LED_BRIGHTNESS, n, 7) : n \in {0, 1, MaxMapLen - 1, MaxMapLen}}
    \cup {Block(ADDR_POLLING_RATE, 2, 1)}
    \cup {Hole(Block(ADDR_LED_BRIGHTNESS, n, 7), ADDR_LED_BRIGHTNESS + 1) :
            n \in {3, MaxMapLen}}

-----------------------------------------------------------------------------
(* The controller: PulsarX2V2Mini driving the transport *)

InitCtl ==
    /\ IdleDpi /\ IdleCodec /\ stage = "ctl"
    /\ settings = <<>> /\ _profile = <<>> /\ pc = "idle" /\ call = NoCall
    /\ result = None /\ sent = <<>> /\ rcvd = <<>>
    /\ saved = [settings |-> <<>>, profile |-> <<>>]
    /\ current = 0 /\ newsettings = <<>> /\ image = 0 /\ hist = "" /\ ncalls = 0

Update_replace(s, addresses) == addresses

Update(s, addresses) ==
    [a \in DOMAIN s \cup DOMAIN addresses |->
        IF a \in DOMAIN addresses THEN addresses[a] ELSE s[a]]

min(S) == CHOOSE a \in S : \A b \in S : a <= b

Begin(c) ==
    /\ pc = "idle"
    /\ ncalls < (IF stage = "set" THEN MaxSetCalls ELSE MaxCalls)
    /\ ncalls' = ncalls + 1
    /\ call' = c
    /\ rcvd' = <<>>
    /\ saved' = [settings |-> settings, profile |-> _profile]
    /\ hist' = IF hist = "read;restore" THEN "read;restore;call"
               ELSE IF hist = "read;restore;call" THEN ""
               ELSE hist

Finish(r) == pc' = "done" /\ result' = r

Discard == Len(rcvd) < MaxDiscard /\ UNCHANGED <<pc, result>>

(* get_power *)

CallGetPower ==
    /\ Begin([NoCall EXCEPT !.op = "get_power"])
    /\ sent' = <<build_payload(POWER, NoParams)>>
    /\ pc' = "get_power"
    /\ result' = None
    /\ UNCHANGED <<pureVars, settings, _profile, current, newsettings, image>>

GetPowerRead ==
    /\ pc = "get_power"
    /\ \E resp \in Rx :
          /\ rcvd' = Append(rcvd, resp)
          /\ IF At(resp, 1) = POWER
                THEN Finish(parse_power_details(resp))
                ELSE Discard
    /\ UNCHANGED <<pureVars, settings, _profile, call, sent, saved, current,
                   newsettings, image, hist, ncalls>>

(* read_settings *)

MemGetRequest_len9(cur) == build_payload(MEM_GET, With2(4, cur, 5, 9))

MemGetRequest(cur) == build_payload(MEM_GET, With2(4, cur, 5, 10))

max_addr == 184

CallReadSettings ==
    /\ Begin([NoCall EXCEPT !.op = "read_settings"])
    /\ current' = 0
    /\ newsettings' = <<>>
    /\ image' \in 1..NImages
    /\ sent' = <<MemGetRequest(0)>>
    /\ pc' = "read_settings"
    /\ result' = None
    /\ UNCHANGED <<pureVars, settings, _profile>>

ReadSettingsRead ==
    /\ pc = "read_settings"
    /\ \E resp \in Rx :
          /\ rcvd' = Append(rcvd, resp)
          /\ IF At(resp, 4) # current
                THEN /\ Finish(Raise("AssertionError", 625))
                     /\ current' = 0 /\ newsettings' = <<>>
                     /\ UNCHANGED <<settings, sent, hist>>
             ELSE IF At(resp, 5) # 10
                THEN /\ Finish(Raise("AssertionError", 626))
                     /\ current' = 0 /\ newsettings' = <<>>
                     /\ UNCHANGED <<settings, sent, hist>>
             ELSE LET ns == Update(newsettings,
                                   [a \in current..(current + 9) |-> At(resp, 6 + a - current)])
                  IN  IF current + 10 <= max_addr + 10
                         THEN /\ newsettings' = ns
                              /\ current' = current + 10
                              /\ sent' = Append(sent, MemGetRequest(current + 10))
                              /\ UNCHANGED <<settings, pc, result, hist>>
                         ELSE /\ settings' = ns
                              /\ Finish(Return("None"))
                              /\ current' = 0 /\ newsettings' = <<>>
                              /\ hist' = "read"
                              /\ UNCHANGED sent
    /\ UNCHANGED <<pureVars, _profile, call, saved, image, ncalls>>

(* restore *)

settings_keep(s) == s

settings_clear(s) == <<>>

CallRestore ==
    /\ Begin([NoCall EXCEPT !.op = "restore", !.payload = build_payload(RESTORE, NoParams)])
    /\ sent' = <<build_payload(RESTORE, NoParams)>>
    /\ pc' = "restore"
    /\ result' = None
    /\ UNCHANGED <<pureVars, settings, _profile, current, newsettings, image>>

RestoreRead ==
    /\ pc = "restore"
    /\ \E resp \in Rx :
          /\ rcvd' = Append(rcvd, resp)
          /\ IF resp = call.payload
                THEN /\ settings' = settings_clear(settings)
                     /\ Finish(Return("None"))
                     /\ hist' = IF hist = "read" THEN "read;restore" ELSE ""
                ELSE /\ Finish(Raise("AssertionError", 655))
                     /\ UNCHANGED <<settings, hist>>
    /\ UNCHANGED <<pureVars, _profile, call, sent, saved, current, newsettings,
                   image, ncalls>>

(* is_on, alone and as the first step of _mem_set *)

mem_set_payload_zerofill(addresses) ==
    LET length == Cardinality(DOMAIN addresses)
    IN  IF ~(1 <= length /\ length <= 10) THEN Raise("ValueError", 683)
        ELSE LET start_address == min(DOMAIN addresses)
                 kwargs == [i \in 2..15 |->
                              IF i = 4 THEN start_address
                              ELSE IF i = 5 THEN length
                              ELSE IF i >= 6 /\ i < 6 + length
                                      /\ start_address + i - 6 \in DOMAIN addresses
                                 THEN addresses[start_address + i - 6]
                              ELSE 0]
             IN  IF ~bytearray_ok(kwargs) THEN Raise("ValueError", 111)
                 ELSE Return(build_payload(MEM_SET, kwargs))

mem_set_payload_swapped(addresses) ==
    LET length == Cardinality(DOMAIN addresses)
    IN  IF ~(1 <= length /\ length <= 10) THEN Raise("ValueError", 683)
        ELSE LET start_address == min(DOMAIN addresses)
                 kwargs == [i \in 2..15 |->
                              IF i = 4 THEN length
                              ELSE IF i = 5 THEN start_address
                              ELSE IF i >= 6 /\ i < 6 + length
                                 THEN addresses[start_address + i - 6]
                              ELSE 0]
             IN  IF \E a \in start_address..(start_address + length - 1) :
                        a \notin DOMAIN addresses
                    THEN Raise("KeyError", 702)
                 ELSE IF ~bytearray_ok(kwargs) THEN Raise("ValueError", 111)
                 ELSE Return(build_payload(MEM_SET, kwargs))

mem_set_payload(addresses) ==
    LET length == Cardinality(DOMAIN addresses)
    IN  IF ~(1 <= length /\ length <= 10) THEN Raise("ValueError", 683)
        ELSE LET start_address == min(DOMAIN addresses)
                 kwargs == [i \in 2..15 |->
                              IF i = 4 THEN start_address
                              ELSE IF i = 5 THEN length
                              ELSE IF i >= 6 /\ i < 6 + length
                                 THEN addresses[start_address + i - 6]
                              ELSE 0]
             IN  IF \E a \in start_address..(start_address + length - 1) :
                        a \notin DOMAIN addresses
                    THEN Raise("KeyError", 702)
                 ELSE IF ~bytearray_ok(kwargs) THEN Raise("ValueError", 111)
                 ELSE Return(build_payload(MEM_SET, kwargs))

MemSetStart(c) ==
    LET p == mem_set_payload(c.addresses)
    IN  /\ Begin([c EXCEPT !.payload = IF p.ok THEN p.val ELSE <<>>])
        /\ IF p.ok
              THEN /\ sent' = <<build_payload(STATUS, NoParams)>>
                   /\ pc' = "is_on"
                   /\ result' = None
              ELSE /\ sent' = <<>>
                   /\ Finish(p)
        /\ UNCHANGED <<pureVars, settings, _profile, current, newsettings, image>>

MemSetBegin(op, addresses) ==
    MemSetStart([NoCall EXCEPT !.op = op, !.addresses = addresses])

CallMemSet == \E addresses \in AddrMaps : MemSetBegin("_mem_set", addresses)

CallIsOn ==
    /\ Begin([NoCall EXCEPT !.op = "is_on"])
    /\ sent' = <<build_payload(STATUS, NoParams)>>
    /\ pc' = "is_on"
    /\ result' = None
    /\ UNCHANGED <<pureVars, settings, _profile, current, newsettings, image>>

IsOnRead ==
    /\ pc = "is_on"
    /\ \E resp \in Rx :
          /\ rcvd' = Append(rcvd, resp)
          /\ IF At(resp, 1) # STATUS
                THEN Discard /\ UNCHANGED sent
             ELSE LET on == int_to_bool(At(resp, 6))
                  IN  IF call.op = "is_on" \/ ~on.ok
                         THEN Finish(on) /\ UNCHANGED sent
                      ELSE IF ~on.val
                         THEN Finish(Raise("AssertionError", 705)) /\ UNCHANGED sent
                      ELSE /\ sent' = Append(sent, call.payload)
                           /\ pc' = "mem_set"
                           /\ UNCHANGED result
    /\ UNCHANGED <<pureVars, settings, _profile, call, saved, current, newsettings,
                   image, hist, ncalls>>

MemSetRead ==
    /\ pc = "mem_set"
    /\ \E resp \in Rx :
          /\ rcvd' = Append(rcvd, resp)
          /\ settings' = Update(settings, call.addresses)
          /\ Finish(Return("None"))
    /\ UNCHANGED <<pureVars, _profile, call, sent, saved, current, newsettings,
                   image, hist, ncalls>>

(* the typed setters: each builds its address map and calls _mem_set *)

Color(r1, r2, g1, g2, b1, b2) == <<"#", r1, r2, g1, g2, b1, b2>>

SetterArgs ==
    [name : {"polling_rate.setter"}, mode : {0}, value : {1000, 125, 100}]
    \cup [name : {"dpi_mode.setter"}, mode : {0}, value : {1, 4}]
    \cup [name : {"lod_mm.setter"}, mode : {0}, value : {2, 0}]
    \cup [name : {"motion_sync.setter", "angle_snapping.setter", "led_enabled.setter"},
          mode : {0}, value : {1, 2}]
    \cup [name : {"lod_ripple.setter"}, mode : {0}, value : {0, 2}]
    \cup [name : {"led_effect.setter"}, mode : {0}, value : {2, 0}]
    \cup [name : {"led_brightness.setter"}, mode : {0}, value : {0 - 1, 0, 7, 255, 256}]
    \cup {[name |-> "set_dpi", mode |-> 0, value |-> 50],
          [name |-> "set_dpi", mode |-> 3, value |-> 26000],
          [name |-> "set_dpi", mode |-> 0 - 1, value |-> 12850],
          [name |-> "set_dpi", mode |-> 4, value |-> 50],
          [name |-> "set_dpi", mode |-> 0, value |-> 75]}
    \cup [name : {"dpi.setter"}, mode : {0}, value : {800}]
    \cup {[name |-> "set_led_color", mode |-> 0, value |-> Color("0", "1", "0", "2", "0", "3")],
          [name |-> "set_led_color", mode |-> 3, value |-> Color("f", "f", "f", "f", "f", "f")],
          [name |-> "set_led_color", mode |-> 1, value |-> <<"#", "f", "f", "f">>],
          [name |-> "set_led_color", mode |-> 4, value |-> Color("0", "1", "0", "2", "0", "3")]}
    \cup [name : {"led_color.setter"}, mode : {0},
          value : {Color("8", "0", "9", "0", "a", "0")}]

CallSetter ==
    \E a \in SetterArgs :
       LET addresses == SetterMap(a.name, a.mode, a.value, settings)
           c == [NoCall EXCEPT !.op = a.name, !.arg = a.mode, !.value = a.value]
       IN  IF addresses.ok
              THEN MemSetStart([c EXCEPT !.addresses = addresses.val])
              ELSE /\ Begin(c)
                   /\ sent' = <<>>
                   /\ Finish(addresses)
                   /\ UNCHANGED <<pureVars, settings, _profile, current, newsettings,
                                  image>>

(* the settings accessors *)

CallAccessor ==
    /\ \E name \in Accessors :
       \E mode \in (IF name \in {"get_dpi", "get_led_color"} THEN 0..3 ELSE {0}) :
          /\ Begin([NoCall EXCEPT !.op = name, !.arg = mode])
          /\ result' = Access(name, mode, settings)
    /\ sent' = <<>>
    /\ pc' = "done"
    /\ UNCHANGED <<pureVars, settings, _profile, current, newsettings, image>>

(* the call has returned: the caller goes on to its next call *)

Return_ ==
    /\ pc = "done"
    /\ pc' = "idle"
    /\ call' = NoCall
    /\ result' = None
    /\ sent' = <<>>
    /\ rcvd' = <<>>
    /\ saved' = [settings |-> <<>>, profile |-> <<>>]
    /\ image' = 0
    /\ UNCHANGED <<pureVars, settings, _profile, current, newsettings, hist, ncalls>>

(* profile: the getter (through read_profile) and the setter *)

CallProfileGet ==
    /\ Begin([NoCall EXCEPT !.op = "profile"])
    /\ IF _profile # <<>>
          THEN /\ sent' = <<>>
               /\ Finish(Return(_profile[1]))
          ELSE /\ sent' = <<bytes(RequestActiveProfilePayload)>>
               /\ pc' = "read_profile"
               /\ result' = None
    /\ UNCHANGED <<pureVars, settings, _profile, current, newsettings, image>>

ReadProfileRead ==
    /\ pc = "read_profile"
    /\ \E resp \in Rx :
          /\ rcvd' = Append(rcvd, resp)
          /\ LET i == from_payload(resp)
             IN  IF ~i.ok THEN Finish(i) /\ UNCHANGED <<sent, call>>
                 ELSE IF i.val.cls # "CurrentActiveProfilePayload"
                    THEN Discard /\ UNCHANGED <<sent, call>>
                 ELSE /\ call' = [call EXCEPT !.arg = profile_of(i.val)]
                      /\ sent' = Append(sent, bytes(SetActiveProfilePayload(profile_of(i.val))))
                      /\ pc' = "profile_set"
                      /\ UNCHANGED result
    /\ UNCHANGED <<pureVars, settings, _profile, saved, current, newsettings,
                   image, hist, ncalls>>

profile_echo_any(resp_profile, inst_profile) == TRUE

profile_echo_ok(resp_profile, inst_profile) == resp_profile = inst_profile

CallProfileSet ==
    /\ \E value \in ProfileArgs :
          /\ Begin([NoCall EXCEPT !.op = "profile.setter", !.arg = value])
          /\ sent' = <<bytes(SetActiveProfilePayload(value))>>
    /\ pc' = "profile_set"
    /\ result' = None
    /\ UNCHANGED <<pureVars, settings, _profile, current, newsettings, image>>

ProfileSetRead ==
    /\ pc = "profile_set"
    /\ \E resp \in Rx :
          /\ rcvd' = Append(rcvd, resp)
          /\ LET i == from_payload(resp)
             IN  IF ~i.ok THEN Finish(i) /\ UNCHANGED _profile
                 ELSE IF i.val.cls # "SetActiveProfilePayload"
                    THEN Discard /\ UNCHANGED _profile
                 ELSE IF ~profile_echo_ok(profile_of(i.val), call.arg)
                    THEN Finish(Raise("AssertionError", 648)) /\ UNCHANGED _profile
                 ELSE /\ _profile' = <<call.arg>>
                      /\ Finish(IF call.op = "profile" THEN Return(call.arg)
                                                       ELSE Return("None"))
    /\ UNCHANGED <<pureVars, settings, call, sent, saved, current, newsettings,
                   image, hist, ncalls>>

Next ==
    \/ CallGetPower \/ GetPowerRead
    \/ CallReadSettings \/ ReadSettingsRead
    \/ CallRestore \/ RestoreRead
    \/ CallMemSet \/ CallIsOn \/ IsOnRead \/ MemSetRead
    \/ CallAccessor
    \/ Return_
    \/ CallProfileGet \/ ReadProfileRead \/ CallProfileSet \/ ProfileSetRead

Spec == InitCtl /\ [][Next]_vars

-----------------------------------------------------------------------------
(* The typed setters alone, from the state after construction *)

InitSet ==
    /\ IdleDpi /\ IdleCodec /\ stage = "set"
    /\ settings = <<>> /\ _profile = <<>> /\ pc = "idle" /\ call = NoCall
    /\ result = None /\ sent = <<>> /\ rcvd = <<>>
    /\ saved = [settings |-> <<>>, profile |-> <<>>]
    /\ current = 0 /\ newsettings = <<>> /\ image = 0 /\ hist = "" /\ ncalls = 0

NextSet == CallSetter \/ IsOnRead \/ MemSetRead \/ Return_

SpecSet == InitSet /\ [][NextSet]_vars

-----------------------------------------------------------------------------
(* Claims about the DPI encoding *)

ValidDpi == {50 * k : k \in 1..520}

\* C1: for every DPI value d in {50, 100, ..., 26000}, encoding d succeeds and
\* decoding the three bytes gives d back.
C1_DpiRoundTrip ==
    dpi \in ValidDpi =>
        /\ stage = "encoded" => raw.ok /\ dpi_raw_to_int(raw.val) = Return(dpi)
        /\ stage = "decoded" => dpi2 = Return(dpi)

C1_Witness == stage = "decoded" /\ dpi = 26000 /\ dpi2 = Return(26000)

\* C6: dpi_int_to_raw fails below 50, above 26000 and off the multiples of 50;
\* elsewhere it returns [f50, f50, (f12800<<2)|(f12800<<6)] for q = dpi/50 - 1,
\* (f12800, f50) = (q div 256, q mod 256); 50 encodes to [0,0,0], 26000 is
\* accepted, 49 and 75 are rejected.
C6_DpiEncode ==
    stage \in {"encoded", "decoded"} =>
        /\ IF dpi < 50 \/ dpi > 26000 \/ dpi % 50 # 0
              THEN ~raw.ok /\ raw.err = "ValueError"
              ELSE LET q == (dpi \div 50) - 1
                       f12800 == q \div 256
                       f50 == q % 256
                   IN  raw = Return(<<f50, f50, 4 * f12800 + 64 * f12800>>)
        /\ dpi = 50 => raw = Return(<<0, 0, 0>>)
        /\ dpi = 26000 => raw.ok
        /\ dpi \in {49, 75} => ~raw.ok

C6_Witness == stage = "encoded" /\ dpi = 12850 /\ raw = Return(<<0, 0, 68>>)

-----------------------------------------------------------------------------
(* Claims about the frame codec *)

Built == variant = None /\ stage \in {"framed", "parsed"} /\ tampered = "no"

\* C2: parsing the 17 serialised bytes of a payload variant (Restore,
\* RequestActiveProfile, CurrentActiveProfile{p}, SetActiveProfile{p},
\* RequestPowerDetails, the three DeviceEvent kinds; p in 0..255) succeeds and
\* returns the same variant, whose bytes are the serialised bytes.
C2_VariantRoundTrip ==
    (stage = "parsed" /\ variant # None /\ tampered = "no") =>
        /\ Len(payload) = 17
        /\ inst.ok
        /\ inst.val.cls = variant.cls
        /\ bytes(inst.val) = payload
        /\ inst.val = variant

C2_Witness ==
    /\ stage = "parsed" /\ tampered = "no"
    /\ variant = SetActiveProfilePayload(255)
    /\ inst = Return(SetActiveProfilePayload(255))

\* C3: build_payload returns 17 bytes: 0x08, the command, the 14 parameters,
\* and (0x55 - sum of bytes 0..15) mod 256.
C3_BuildShape ==
    Built =>
        /\ Len(payload) = 17
        /\ At(payload, 0) = 8
        /\ At(payload, 1) = command
        /\ \A i \in 2..15 : At(payload, i) = params[i]
        /\ At(payload, 16) = (85 - sum(Slice(payload, 0, 16))) % 256

C3_Witness ==
    Built /\ stage = "framed" /\ command = MEM_SET /\ params[15] = 255 /\ params[5] = 10

Canonical ==
    \/ command = RESTORE
    \/ command = POWER /\ params = NoParams
    \/ command = ACTIVE_PROFILE_GET /\ params = NoParams
    \/ command = ACTIVE_PROFILE_GET /\ params = [NoParams EXCEPT ![5] = 1, ![6] = params[6]]
    \/ command = ACTIVE_PROFILE_SET /\ params = [NoParams EXCEPT ![5] = 1, ![6] = params[6]]
    \/ /\ command = DEVICE_EVENT /\ params[6] \in {1, 4, 64}
       /\ params = [NoParams EXCEPT ![5] = 10, ![6] = params[6]]

\* C4 as stated: parsing the frame built for any command of the enumeration
\* and any parameters succeeds.
C4_ParseBuildSucceeds ==
    (Built /\ stage = "parsed" /\ command \in Command) => inst.ok

\* C4 as amended: the built frame always passes the length and checksum
\* checks; a payload is returned exactly for RESTORE and for the canonical
\* frames of the variants, and every other frame raises NotImplementedError,
\* KeyError or the canonical-form AssertionError.
C4_ParseBuildChecksumOk ==
    (Built /\ stage = "parsed" /\ command \in Command) =>
        /\ inst.ok <=> Canonical
        /\ ~inst.ok =>
              /\ inst.line \notin {302, 303}
              /\ inst.err \in {"NotImplementedError", "KeyError", "AssertionError"}
              /\ command \in {STATUS, MEM_SET, MEM_GET, POWER}
                    <=> inst.err = "NotImplementedError"

C4_Witness ==
    /\ Built /\ stage = "parsed" /\ command = MEM_GET /\ params[4] = 10
    /\ inst = Raise("NotImplementedError", 327)

\* C5: from_payload fails for every input whose length is not 17 and for every
\* 17-byte input whose last byte is not (0x55 - sum of bytes 0..15) mod 256,
\* whatever the command byte.
C5_MalformedRejected ==
    stage = "parsed" =>
        IF Len(payload) # 17
           THEN inst = Raise("AssertionError", 302)
           ELSE At(payload, 16) # (85 - sum(Slice(payload, 0, 16))) % 256
                    => inst = Raise("AssertionError", 303)

C5_Witness ==
    /\ stage = "parsed" /\ tampered = "checksum"
    /\ At(payload, 1) = RESTORE /\ params[6] = 255
    /\ ~inst.ok

-----------------------------------------------------------------------------
(* Claims about the controller *)

Last(q) == q[Len(q)]

Written(cmd) == \E i \in DOMAIN sent : At(sent[i], 1) = cmd

InvalidSpan(addresses) ==
    LET A == DOMAIN addresses
        n == Cardinality(A)
    IN  n = 0 \/ n > 10 \/ A # min(A)..(min(A) + n - 1)

\* C7: _mem_set fails for an address map that is empty, has more than 10
\* entries or is not the contiguous block from its lowest address; it then
\* writes no frame and leaves the mirror as it was.
C7_InvalidSpanRejected ==
    (call.op = "_mem_set" /\ InvalidSpan(call.addresses)) =>
        /\ pc = "done"
        /\ ~result.ok
        /\ result.err \in {"ValueError", "KeyError"}
        /\ sent = <<>> /\ rcvd = <<>>
        /\ settings = saved.settings

C7_Witness ==
    /\ pc = "done" /\ call.op = "_mem_set"
    /\ DOMAIN call.addresses = {78, 80}
    /\ result = Raise("KeyError", 702)
    /\ settings # <<>> /\ settings = saved.settings

FirstStatus(q) ==
    LET S == {i \in DOMAIN q : At(q[i], 1) = STATUS}
    IN  IF S = {} THEN <<>> ELSE q[min(S)]

\* C8: when the STATUS reply of a _mem_set call reports off (byte 6 = 0) the
\* call fails, writes no MEM_SET frame and leaves the mirror as it was; a
\* MEM_SET frame is written only after a STATUS reply of the same call
\* reported on (byte 6 = 1).
C8_DeviceOffNoWrite ==
    LET st == FirstStatus(rcvd)
    IN  /\ (call.op = "_mem_set" /\ st # <<>> /\ At(st, 6) = 0) =>
              /\ pc = "done"
              /\ result = Raise("AssertionError", 705)
              /\ ~Written(MEM_SET)
              /\ settings = saved.settings
        /\ Written(MEM_SET) =>
              /\ call.op = "_mem_set"
              /\ st # <<>> /\ At(st, 6) = 1

C8_Witness ==
    /\ pc = "done" /\ call.op = "_mem_set"
    /\ Len(rcvd) = 2 /\ At(rcvd[1], 1) = DEVICE_EVENT
    /\ At(rcvd[2], 1) = STATUS /\ At(rcvd[2], 6) = 0
    /\ result = Raise("AssertionError", 705)
    /\ sent = <<build_payload(STATUS, NoParams)>>
    /\ settings # <<>>

PowerShape ==
    call.op = "get_power" =>
        /\ sent = <<build_payload(POWER, NoParams)>>
        /\ \A i \in 1..(Len(rcvd) - 1) : At(rcvd[i], 1) # POWER
        /\ pc \in {"get_power", "done"}
        /\ pc = "done" <=> (rcvd # <<>> /\ At(Last(rcvd), 1) = POWER)

Details(f) ==
    [battery_percentage |-> At(f, 6),
     battery_millivoltage |-> 256 * At(f, 8) + At(f, 9),
     power_connected |-> At(f, 7) # 0]

\* C9 as stated: get_power writes one POWER request, discards the frames
\* before the first POWER frame, reads nothing past it and returns the
\* PowerDetails of that frame, whatever the frame holds.
C9_PowerAlwaysReturned ==
    /\ PowerShape
    /\ (call.op = "get_power" /\ pc = "done") => result = Return(Details(Last(rcvd)))

\* C9 as amended: the same, with PowerDetails returned when byte 7 of the
\* POWER frame is 0 or 1; for any other byte 7 get_power raises ValueError
\* after consuming that frame.
C9_PowerFromFirstPowerFrame ==
    /\ PowerShape
    /\ (call.op = "get_power" /\ pc = "done") =>
            IF At(Last(rcvd), 7) \in {0, 1}
               THEN result = Return(Details(Last(rcvd)))
               ELSE result = Raise("ValueError", 472)

C9_Witness ==
    /\ call.op = "get_power" /\ pc = "done"
    /\ Len(rcvd) = 2
    /\ rcvd[1] = bytes(DeviceEventPayload(EV_DPI_MODE))
    /\ result = Return([battery_percentage |-> 77, battery_millivoltage |-> 4000,
                         power_connected |-> TRUE])

C11_MirrorUpdatedInPlace ==
    (call.op = "_mem_set" /\ pc = "done" /\ result.ok) =>
        /\ \A a \in DOMAIN call.addresses :
              a \in DOMAIN settings /\ settings[a] = call.addresses[a]
        /\ \A a \in (DOMAIN settings \cup DOMAIN saved.settings) \ DOMAIN call.addresses :
              /\ a \in DOMAIN settings /\ a \in DOMAIN saved.settings
              /\ settings[a] = saved.settings[a]
        /\ ~Written(MEM_GET)

C11_Witness ==
    /\ call.op = "_mem_set" /\ pc = "done" /\ result.ok
    /\ DOMAIN call.addresses = {ADDR_LED_BRIGHTNESS}
    /\ DOMAIN saved.settings = 0..199
    /\ saved.settings[ADDR_LED_BRIGHTNESS] # call.addresses[ADDR_LED_BRIGHTNESS]
    /\ settings[ADDR_LED_BRIGHTNESS] = 7
    /\ settings[ADDR_POLLING_RATE] = saved.settings[ADDR_POLLING_RATE]

\* C12: restore() clears the cached profile: after a successful restore() the
\* profile cache is empty, so that the next profile read queries the device.
C12_RestoreClearsProfile ==
    (call.op = "restore" /\ pc = "done" /\ result.ok) => _profile = <<>>

Echoed(w) == At(rcvd[w], 4) = 10 * (w - 1) /\ At(rcvd[w], 5) = 10

\* C13: read_settings writes one MEM_GET request of length 10 per window, for
\* the start addresses 0, 10, 20, ... in ascending order up to 190 (the last
\* one <= 0xc2). When every response echoes the start address at byte 4 and
\* the length at byte 5 the mirror ends with mirror[start + i] =
\* response[6 + i] for every window and i in 0..9; when a response does not,
\* read_settings fails and the mirror is as it was before the call.
C13_ReadSettingsWindows ==
    call.op = "read_settings" =>
        LET n == Len(rcvd)
        IN  /\ Len(sent) \in 1..20
            /\ \A i \in DOMAIN sent :
                  sent[i] = build_payload(MEM_GET, With2(4, 10 * (i - 1), 5, 10))
            /\ \A w \in 1..(n - 1) : Echoed(w)
            /\ IF n > 0 /\ ~Echoed(n)
                  THEN /\ pc = "done" /\ ~result.ok /\ result.err = "AssertionError"
                       /\ Len(sent) = n
                       /\ settings = saved.settings
               ELSE IF n = 20
                  THEN /\ pc = "done" /\ result.ok
                       /\ Len(sent) = 20
                       /\ DOMAIN settings = 0..199
                       /\ \A w \in 1..20 : \A i \in 0..9 :
                             settings[10 * (w - 1) + i] = At(rcvd[w], 6 + i)
               ELSE /\ pc = "read_settings"
                    /\ Len(sent) = n + 1
                    /\ settings = saved.settings

C13_Witness ==
    /\ call.op = "read_settings" /\ pc = "done" /\ result.ok
    /\ Len(sent) = 20 /\ At(sent[20], 4) = 190
    /\ saved.settings # <<>> /\ settings # saved.settings
    /\ settings[199] = At(rcvd[20], 15)

IsSetEcho(f) == At(f, 1) = ACTIVE_PROFILE_SET /\ from_payload(f).ok

\* C14: the profile setter writes one SetActiveProfile{p} frame and reads
\* frames until a SetActiveProfile echo is obtained; if the echoed profile
\* equals p the cache becomes p, and if it differs the setter fails and the
\* cache keeps its previous value.
C14_ProfileSetterEcho ==
    call.op = "profile.setter" =>
        LET n == Len(rcvd)
        IN  /\ sent = <<bytes(SetActiveProfilePayload(call.arg))>>
            /\ \A i \in 1..(n - 1) : ~IsSetEcho(rcvd[i])
            /\ (n > 0 /\ IsSetEcho(rcvd[n])) =>
                  /\ pc = "done"
                  /\ IF At(rcvd[n], 6) = call.arg
                        THEN result.ok /\ _profile = <<call.arg>>
                        ELSE /\ result = Raise("AssertionError", 648)
                             /\ _profile = saved.profile
            /\ (n = 0 \/ ~IsSetEcho(rcvd[n])) => _profile = saved.profile
            /\ (pc = "done" /\ result.ok) => (n > 0 /\ IsSetEcho(rcvd[n]))

C14_Witness ==
    /\ call.op = "profile.setter" /\ pc = "done"
    /\ call.arg = 1 /\ saved.profile = <<0>>
    /\ Len(rcvd) = 2 /\ At(rcvd[1], 1) = DEVICE_EVENT
    /\ rcvd[2] = bytes(SetActiveProfilePayload(0))
    /\ result = Raise("AssertionError", 648)
    /\ _profile = <<0>>

IsCurrentProfile(f) ==
    /\ At(f, 1) = ACTIVE_PROFILE_GET /\ from_payload(f).ok
    /\ from_payload(f).val.cls = "CurrentActiveProfilePayload"

\* C15: the profile getter is lazy and cached: with an empty cache it writes
\* RequestActiveProfile, reads frames until one parses as CurrentActiveProfile,
\* and caches and returns that frame's profile byte; with a non-empty cache it
\* returns the cached value and writes and reads nothing.
C15_LazyCachedGetter ==
    call.op = "profile" =>
        IF saved.profile # <<>>
           THEN /\ pc = "done" /\ result = Return(saved.profile[1])
                /\ sent = <<>> /\ rcvd = <<>>
                /\ _profile = saved.profile
           ELSE /\ sent = <<bytes(RequestActiveProfilePayload)>>
                /\ \A i \in DOMAIN rcvd :
                      IsCurrentProfile(rcvd[i]) =>
                          /\ i = Len(rcvd)
                          /\ pc = "done"
                          /\ result = Return(At(rcvd[i], 6))
                          /\ _profile = <<At(rcvd[i], 6)>>

\* C17: every controller operation that awaits a reply (get_power, is_on, the
\* profile getter and setter, read_settings, _mem_set, restore) discards an
\* unsolicited DEVICE_EVENT frame delivered before the reply: reading the
\* event neither completes the operation nor changes what it has written,
\* collected or stored, so that the result is that of the matching reply.
C17_EventsDiscarded ==
    [][(/\ Len(rcvd') = Len(rcvd) + 1
        /\ At(rcvd'[Len(rcvd')], 1) = DEVICE_EVENT)
          => UNCHANGED <<pc, result, sent, settings, _profile, newsettings, current>>]_vars

Count(q, c) == Cardinality({i \in DOMAIN q : At(q[i], 1) = c})

\* C18: no operation returns successfully before the reply to each frame it
\* wrote has been read: when an operation has returned, it has read, for
\* every command, at least as many frames of that command as it wrote, so no
\* reply of a finished operation is left in the stream.
C18_RepliesConsumed ==
    (pc = "done" /\ result.ok) =>
        \A c \in Command : Count(rcvd, c) >= Count(sent, c)

\* C19: every frame that from_payload accepts is in canonical form: when
\* from_payload(f) returns v, bytes(v) = f; in particular a RESTORE frame is
\* accepted only when it is the canonical Restore frame.
C19_AcceptedIsCanonical ==
    (stage = "parsed" /\ inst.ok) => bytes(inst.val) = payload

-----------------------------------------------------------------------------
(* Claims about the typed setters *)

\* C16: the led_brightness setter rejects every integer outside 0..255 and
\* accepts every integer inside: for v in 0..255 it goes on to _mem_set, which
\* on a powered-on device writes {0x4e: v, 0x4f: checksum(v)}, so that the
\* led_brightness getter then returns v.
C16_BrightnessRange ==
    call.op = "led_brightness.setter" =>
        IF call.value \in 0..255
           THEN /\ sent # <<>> /\ sent[1] = build_payload(STATUS, NoParams)
                /\ (pc = "done" /\ result.ok) =>
                      /\ led_brightness(settings) = Return(call.value)
                      /\ settings[79] = (85 - call.value) % 256
           ELSE pc = "done" /\ ~result.ok /\ sent = <<>>

FieldAddrs(f) == {f.vals[k] : k \in DOMAIN f.vals} \cup {f.ck}

Fields ==
    {[vals |-> <<a>>, ck |-> a + 1] : a \in {0, 4, 10, 76, 82, 171, 175, 177}}
    \cup {[vals |-> <<12 + 4 * m, 13 + 4 * m, 14 + 4 * m>>, ck |-> 15 + 4 * m] : m \in 0..3}
    \cup {[vals |-> <<44 + 4 * m, 45 + 4 * m, 46 + 4 * m>>, ck |-> 47 + 4 * m] : m \in 0..3}

Paired(s, f) ==
    /\ FieldAddrs(f) \subseteq DOMAIN s
    /\ s[f.ck] = (85 - sum([k \in DOMAIN f.vals |-> s[f.vals[k]]])) % 256

\* C20: after any sequence of successful typed setter calls, for every field
\* written by one of them the mirror byte at the field's checksum address is
\* (0x55 - sum of the field's value bytes now in the mirror) mod 256. (The
\* mirror starts empty and only the typed setters write it here, so the
\* fields written are the fields present in the mirror.)
C20_ChecksumPairing ==
    /\ \A f \in Fields :
          (FieldAddrs(f) \cap DOMAIN settings # {}) => Paired(settings, f)
    /\ (pc = "done" /\ result.ok) =>
          /\ DOMAIN call.addresses \subseteq DOMAIN settings
          /\ \E f \in Fields : DOMAIN call.addresses = FieldAddrs(f)

C20_Witness ==
    /\ pc = "done" /\ result.ok /\ ncalls = 3
    /\ call.op = "polling_rate.setter" /\ call.value = 125
    /\ DOMAIN settings = {0, 1, 44, 45, 46, 47}
    /\ DOMAIN saved.settings = DOMAIN settings
    /\ saved.settings[0] = 1
    /\ settings[0] = 8 /\ settings[1] = 77
    /\ settings[47] = 79

\* C21: the per-mode accessors read back what the per-mode setters wrote: for
\* every mode in 0..3, after a successful set_led_color(mode, c)
\* get_led_color(mode) returns c, and after a successful set_dpi(mode, d)
\* get_dpi(mode) returns d.
C21_PerModeReadBack ==
    (pc = "done" /\ result.ok /\ call.arg \in 0..3) =>
        /\ call.op = "set_led_color" =>
               get_led_color(settings, call.arg) = Return(call.value)
        /\ call.op = "set_dpi" =>
               get_dpi(settings, call.arg) = Return(call.value)

-----------------------------------------------------------------------------
(* A further claim about the DPI encoding *)

\* C23: dpi_raw_to_int accepts only encodings of valid DPI values: for every
\* 3-byte raw value it accepts, the result is a multiple of 50 in [50, 26000]
\* and dpi_int_to_raw of the result is the raw value again (so that every
\* 3-byte value that is not such an encoding is rejected).
C23_DecodeAcceptsEncodingsOnly ==
    /\ (stage \in {"rawdecoded", "reencoded"} /\ dpi2.ok) => dpi2.val \in ValidDpi
    /\ stage = "reencoded" => raw2 = raw

-----------------------------------------------------------------------------
(* Further claims about the controller *)

MemSetShape(f, addresses) ==
    LET start == min(DOMAIN addresses)
        length == Cardinality(DOMAIN addresses)
    IN  /\ Len(f) = 17
        /\ At(f, 0) = PAYLOAD_HEADER
        /\ At(f, 1) = 7
        /\ At(f, 4) = start
        /\ At(f, 5) = length
        /\ \A k \in 0..(length - 1) : At(f, 6 + k) = addresses[start + k]
        /\ \A i \in (2..15) \ (4..(5 + length)) : At(f, i) = 0
        /\ At(f, 16) = (85 - sum(Slice(f, 0, 16))) % 256

\* C22: for every valid address map (1 to 10 contiguous addresses) _mem_set
\* writes a single MEM_SET frame, and that frame has command byte 0x07,
\* byte 4 = the lowest address, byte 5 = the number of addresses, bytes
\* 6..6+len-1 = the values in ascending address order, every other parameter
\* byte 0x00 and a correct trailing checksum.
C22_MemSetFrame ==
    (call.op = "_mem_set" /\ ~InvalidSpan(call.addresses)) =>
        /\ Count(sent, MEM_SET) <= 1
        /\ (pc = "mem_set" \/ (pc = "done" /\ result.ok)) => Count(sent, MEM_SET) = 1
        /\ \A i \in DOMAIN sent :
              At(sent[i], 1) = MEM_SET =>
                  i = Len(sent) /\ MemSetShape(sent[i], call.addresses)

C22_Witness ==
    /\ pc = "done" /\ result.ok /\ call.op = "_mem_set"
    /\ Cardinality(DOMAIN call.addresses) = 10
    /\ Last(sent) = <<8, 7, 0, 0, 78, 10, 7, 8, 9, 10, 11, 12, 13, 14, 15, 16, 123>>

\* C24: reading the active profile does not change device state: in any
\* sequence of operations, a call of the profile getter writes no
\* ACTIVE_PROFILE_SET frame to the transport; the only frame it may write is
\* the RequestActiveProfile frame.
C24_GetterWritesNoSet ==
    call.op = "profile" =>
        /\ ~Written(ACTIVE_PROFILE_SET)
        /\ \A i \in DOMAIN sent : sent[i] = bytes(RequestActiveProfilePayload)

\* C25: the settings mirror only ever holds bytes taken from MEM_GET replies
\* or values written by _mem_set: for every stream of incoming frames,
\* read_settings never stores into the mirror bytes of a frame whose command
\* byte is not MEM_GET (such as an unsolicited DEVICE_EVENT frame arriving
\* while the first window is awaited).
C25_MirrorFromMemGetOnly ==
    (call.op = "read_settings" /\ pc = "done" /\ result.ok) =>
        \A w \in DOMAIN rcvd :
            (\A i \in 0..9 : settings[10 * (w - 1) + i] = At(rcvd[w], 6 + i))
                => At(rcvd[w], 1) = MEM_GET

====
